---------------------------- MODULE Spec2Model ----------------------------
(***************************************************************************)
(* Session store and interaction engine of the CV & motivation-letter      *)
(* agent (src/api/services/agent_service_backup.py, class AgentService).   *)
(*                                                                         *)
(* Scheduling.  The service methods are called from FastAPI `async def`    *)
(* routes and contain no await, so create_session, get_session_status,     *)
(* process_application_async, handle_section_interaction and               *)
(* finalize_processing run one at a time on the event-loop thread: `loop`  *)
(* is the frame of the call in progress.  _process_in_background runs on   *)
(* a threading.Thread of its own and interleaves with the event loop and   *)
(* with the other background threads between any two accesses of the       *)
(* shared dictionary active_sessions (a dict.update is one atomic step     *)
(* under the interpreter lock; two subscript reads are two steps).         *)
(***************************************************************************)
EXTENDS Naturals, FiniteSets, Sequences, Bags, TLC

\* ---------------------------------------------------------------- bounds
\* process_application_async calls the model accepts in one run (each
\* accepted call starts one background thread).
MaxStarts == 2
\* The last day the clock of the research cache reaches.
MaxDay == 8
\* The longest letter text written to the letter file.
MaxLetterLen == 3

\* ---------------------------------------------------------------- inputs
SessionIds == {"s1", "s2"}
\* The ids upload requests register; the other id stays unknown to the store.
UploadIds == {"s1"}
\* Job description texts (no surrounding whitespace, so str.strip leaves
\* them as they are): one of 8 characters and one of 59.
JobProfiles ==
    {"Engineer", "Senior backend engineer, Python and cloud, Acme GmbH Berlin"}
\* Section names a client sends: a configured one and one that is not.
RequestSections == {"Experience", "Hobbies"}
RequestActions == {"approve", "modify", "ask", "skip", "delete"}
\* <<modification_text, question>> of a request: "" stands for None or the
\* empty string.  A modify or ask request fills one of the two fields; the
\* other actions, which read neither field, come with both left out.
RequestPayloads == {<<"", "text">>, <<"text", "">>}
PayloadsOf(action) ==
    IF action \in {"modify", "ask"} THEN RequestPayloads ELSE {<<"", "">>}
\* What the collaborators return when they succeed.
CVContents == {"cv"}
CompanyData == {"acme"}
AnalysisTexts == {"a1"}
ModifiedTexts == {"m1"}
AnswerTexts == {"ans"}
LetterTexts == {"letter"}

\* ------------------------------------------------------ program constants
CV_SECTIONS ==
    <<"Professional Profile", "Experience", "Education", "Skills", "Projects",
      "Certifications">>

SectionSet == {CV_SECTIONS[i] : i \in DOMAIN CV_SECTIONS}

\* utils/validators.py validate_inputs, line 12: the shortest job profile
\* the command-line entry point accepts.
MinJobProfileLength == 50

\* core/company_researcher.py _get_cached_research, line 142: the days a
\* cached research record is served for.
RetentionDays == 7

\* config/settings.py, lines 32-33: the word-count band of a letter.
MOTIVATION_LETTER_MIN_WORDS == 410
MOTIVATION_LETTER_MAX_WORDS == 430

\* The strings the interactive-approval helpers return instead of raising.
ErrModify == "Error generating modifications"
ErrAnswer == "Error answering question"

\* A key that the session dictionary does not hold.
Absent == "<absent>"

\* LMStudioClient.chat_completion raising (non-200 answer, timeout, network
\* error) instead of returning a text.
GatewayFailure == "<raises>"

EmptyMap == [s \in {} |-> ""]

\* results == {} as written by create_session.
EmptyResults ==
    [populated |-> FALSE, company_research |-> Absent, cv_suggestions |-> EmptyMap,
     cv_content |-> Absent, job_profile |-> Absent]

NoFinal ==
    [present |-> FALSE, timestamp |-> Absent, company_research |-> Absent,
     cv_suggestions |-> EmptyMap, motivation_letter |-> Absent]

\* The record create_session stores (created_at and the two unused queues
\* are not modelled; "error" and "final_results" are keys added later).
NewSession ==
    [status |-> "initialized", current_step |-> "waiting_for_input", progress |-> 0,
     agent |-> FALSE, results |-> EmptyResults, final_results |-> NoFinal,
     error |-> Absent]

\* The locals of a _process_in_background thread that has just been started.
NewThread(job_profile) ==
    [pc |-> "parsing_cv", agent |-> FALSE, cv_content |-> Absent,
     company_data |-> Absent, job_profile |-> job_profile]

Idle ==
    [op |-> "idle", sid |-> Absent, pc |-> Absent, section |-> Absent,
     action |-> Absent, job_profile |-> Absent, status |-> Absent,
     current_step |-> Absent, res |-> EmptyResults, letter |-> Absent,
     stale |-> FALSE, seen |-> {}]

\* What the last finished call handed to its caller (reset when the next
\* call that takes more than one step begins).
NoReturn ==
    [op |-> "none", sid |-> Absent, kind |-> "init", reason |-> Absent,
     status |-> Absent, current_step |-> Absent, progress |-> 0,
     message |-> Absent, section |-> Absent, action |-> Absent, result |-> Absent, calls |-> 0,
     gateway |-> "none",
     letter |-> Absent, cv_suggestions |-> EmptyMap, company_research |-> Absent]

NoFiles == [letter |-> Absent, has_suggestions |-> FALSE, suggestions |-> EmptyMap]

\* No research file for the company in data/cache.
NoCache == [present |-> FALSE, research_date |-> 0, generation |-> 0]

\* The research_company calls of the cache model: one per pipeline.
Researchers == {1, 2}

\* A research_company call that has not begun.
NoResearch == [pc |-> "idle", calls |-> 0, data |-> NoCache, result |-> NoCache]

\* The word counts of the texts the gateway answers a letter prompt with:
\* below, at the ends of, inside and above the band.
WordCounts == {0, 409, 410, 420, 430, 431, 600}

\* A generate_letter call that has not begun: its position, the word count
\* of its current text, its gateway calls and the word counts they returned.
NoGenerator == [pc |-> "idle", letter |-> 0, calls |-> 0, log |-> <<>>]

\* The characters of a letter text that matter to a text-mode file.
LetterChars == {"a", "\r", "\n"}

VARIABLES
    active_sessions,  \* AgentService.active_sessions: session id -> record
    threads,          \* the running _process_in_background threads of each
                      \* id, a bag of their locals (threads have no identity)
    loop,             \* the event-loop call in progress
    ret,              \* the result of the last finished event-loop call
    files,            \* data/output: the persisted artifacts of each id
    starts,           \* process_application_async calls accepted so far
    \* The company research cache on its own (CompanyResearcher).
    cache,            \* data/cache: the research file of the company, if any
    now,              \* the clock, in days
    research,         \* the research_company calls in progress
    generations,      \* the days of the _perform_research calls, in order
    \* The letter artifact on its own (written by _save_results, read back by
    \* the download route).
    letter_text,      \* the text handed to the last write
    letter_file,      \* the characters of the letter file
    letter_read,      \* what the last read returned
    \* The letter generator on its own (MotivationLetterGenerator).
    generator         \* the generate_letter call in progress

serviceVars == <<active_sessions, threads, loop, ret, files, starts>>
researchVars == <<cache, now, research, generations>>
artifactVars == <<letter_text, letter_file, letter_read, generator>>

vars == <<serviceVars, researchVars, artifactVars>>

\* dict.update(fields) on the record of sid.
Update(sessions, sid, fields) == [sessions EXCEPT ![sid] = fields @@ @]

\* The number of running background threads of sid.
LiveThreads(sid) == BagCardinality(threads[sid])

\* The three fields get_session_status reports, as one value.
Triple(rec) == <<rec.status, rec.current_step, rec.progress>>

\* The event-loop frame after a background thread has written `sessions`:
\* a status read in progress on sid has one more instant of the record
\* behind it (seen is an auxiliary history of those instants, the code has
\* no such field); an interaction in progress on sid holds the results
\* object that a pipeline's last update has just replaced.
Watch(sid, sessions, replaced) ==
    IF loop.sid = sid /\ loop.op = "status"
      THEN [loop EXCEPT !.seen = @ \cup {Triple(sessions[sid])}]
    ELSE IF loop.sid = sid /\ loop.op = "interact" /\ replaced
      THEN [loop EXCEPT !.stale = TRUE]
    ELSE loop

ProcessingStatus(op, sid, status, step, progress, message) ==
    [NoReturn EXCEPT !.op = op, !.sid = sid, !.kind = "status", !.status = status,
                     !.current_step = step, !.progress = progress,
                     !.message = message]

\* session.get("message", "Processing...") on a session record (line 173).
SessionMessage(rec) ==
    IF "message" \in DOMAIN rec THEN rec.message ELSE "Processing..."

Init ==
    /\ active_sessions = [s \in {} |-> NewSession]
    /\ threads = [s \in SessionIds |-> EmptyBag]
    /\ loop = Idle
    /\ ret = NoReturn
    /\ files = [s \in SessionIds |-> NoFiles]
    /\ starts = 0
    /\ cache = NoCache
    /\ now = 0
    /\ research = [r \in Researchers |-> NoResearch]
    /\ generations = <<>>
    /\ letter_text = <<>>
    /\ letter_file = <<>>
    /\ letter_read = <<>>
    /\ generator = NoGenerator

\* A registration that starts every registered session afresh.
create_session_resetting_store(sid) ==
    /\ loop.op = "idle"
    /\ active_sessions' = [s \in DOMAIN active_sessions \cup {sid} |-> NewSession]
    /\ ret' = ProcessingStatus("create", sid, "initialized", "waiting_for_input", 0,
                               "Session created successfully")
    /\ UNCHANGED <<threads, loop, files, starts, researchVars, artifactVars>>

\* ------------------------------------------------------- create_session
create_session(sid) ==
    /\ loop.op = "idle"
    /\ active_sessions' = (sid :> NewSession) @@ active_sessions
    /\ ret' = ProcessingStatus("create", sid, "initialized", "waiting_for_input", 0,
                               "Session created successfully")
    /\ UNCHANGED <<threads, loop, files, starts, researchVars, artifactVars>>

\* -------------------------------------------- process_application_async
\* Lines 55-63: register the id when unknown, then overwrite status,
\* current_step and progress, whatever the status was.
StartRecord(rec) ==
    [status |-> "processing", current_step |-> "initializing_agent", progress |-> 10]
        @@ rec

process_application_async_begin(sid, job_profile) ==
    /\ loop.op = "idle"
    /\ starts < MaxStarts
    /\ LET known == IF sid \in DOMAIN active_sessions
                        THEN active_sessions
                        ELSE (sid :> NewSession) @@ active_sessions
       IN  active_sessions' = [known EXCEPT ![sid] = StartRecord(@)]
    /\ loop' = [Idle EXCEPT !.op = "start", !.sid = sid, !.pc = "init_agent",
                            !.job_profile = job_profile]
    /\ ret' = NoReturn
    /\ starts' = starts + 1
    /\ UNCHANGED <<threads, files, researchVars, artifactVars>>

\* utils/validators.py validate_inputs, lines 11-14 (the job profile part):
\* called by the command-line entry point src/main.py only, by no route and
\* by no method of the service.
validate_inputs(job_profile) == Len(job_profile) >= MinJobProfileLength

\* Lines 65-81 and 91-105: CVMotivationAgent() either raises (user profile
\* missing or malformed) and the call returns an error status, or the agent
\* is stored, processing_application / 20 published and the thread started.
process_application_async_start_thread(sid) ==
    /\ loop.op = "start" /\ loop.sid = sid /\ loop.pc = "init_agent"
    /\ \E agent_ok \in BOOLEAN :
         IF agent_ok
           THEN /\ active_sessions' =
                     Update(active_sessions, sid,
                            [agent |-> TRUE, current_step |-> "processing_application",
                             progress |-> 20])
                /\ threads' = [threads EXCEPT ![sid] =
                                 @ (+) SetToBag({NewThread(loop.job_profile)})]
                /\ loop' = [loop EXCEPT !.pc = "return"]
                /\ ret' = ret
           ELSE /\ active_sessions' =
                     Update(active_sessions, sid,
                            [status |-> "error", error |-> "agent_init_failed"])
                /\ threads' = threads
                /\ loop' = Idle
                /\ ret' = ProcessingStatus("start", sid, "error",
                                           "initialization_failed", 0,
                                           "agent_init_failed")
    /\ UNCHANGED <<files, starts, researchVars, artifactVars>>

\* Lines 83-89: the thread is running by now; build the ProcessingStatus and
\* return it.
process_application_async_return(sid) ==
    /\ loop.op = "start" /\ loop.sid = sid /\ loop.pc = "return"
    /\ ret' = ProcessingStatus("start", sid, "processing", "processing_application", 20,
                               "Application processing started")
    /\ loop' = Idle
    /\ UNCHANGED <<active_sessions, threads, files, starts, researchVars, artifactVars>>

\* ------------------------------------------------ _process_in_background
\* One step of the background thread th of sid: the fields it writes, the
\* thread after it (none when it ends), and whether the step replaced the
\* results object.
BackgroundStep(sid, th, fields, after, replaced) ==
    /\ active_sessions' = Update(active_sessions, sid, fields)
    /\ threads' = [threads EXCEPT ![sid] = (@ (-) SetToBag({th})) (+) SetToBag(after)]
    /\ loop' = Watch(sid, Update(active_sessions, sid, fields), replaced)
    /\ UNCHANGED <<ret, files, starts, researchVars, artifactVars>>

\* A thread that ends on an exception without a word to the session.
BackgroundFailedSilently(sid, th, cause) ==
    BackgroundStep(sid, th, [current_step |-> "failed"], {}, FALSE)

\* An except branch that publishes what the thread had computed so far.
BackgroundFailedKeepingPartial(sid, th, cause) ==
    BackgroundStep(sid, th,
                   [status |-> "error", error |-> cause,
                    results |-> [EmptyResults EXCEPT !.cv_content = th.cv_content,
                                                     !.company_research = th.company_data]],
                   {}, FALSE)

\* Lines 153-158: the except branch of the background thread.
BackgroundFailed(sid, th, cause) ==
    BackgroundStep(sid, th, [status |-> "error", error |-> cause], {}, FALSE)

\* A first stage that publishes a progress below the one already stored.
background_parsing_cv_resetting_progress(sid, th) ==
    /\ th.pc = "parsing_cv"
    /\ BackgroundStep(sid, th, [current_step |-> "parsing_cv", progress |-> 10],
                      {[th EXCEPT !.pc = "parse_file",
                                  !.agent = active_sessions[sid].agent]},
                      FALSE)

\* Lines 111-117: read the agent, publish parsing_cv / 30.
background_parsing_cv(sid, th) ==
    /\ th.pc = "parsing_cv"
    /\ BackgroundStep(sid, th, [current_step |-> "parsing_cv", progress |-> 30],
                      {[th EXCEPT !.pc = "parse_file",
                                  !.agent = active_sessions[sid].agent]},
                      FALSE)

\* A second stage that goes on to the section analysis without the company
\* research.
background_researching_company_skipping_research(sid, th) ==
    /\ th.pc = "parse_file"
    /\ IF ~th.agent
         THEN BackgroundFailed(sid, th, "agent_is_none")
         ELSE \/ \E cv \in CVContents :
                   BackgroundStep(sid, th,
                                  [current_step |-> "analyzing_cv",
                                   progress |-> 60],
                                  {[th EXCEPT !.pc = "analyze_sections",
                                              !.cv_content = cv]},
                                  FALSE)
              \/ BackgroundFailed(sid, th, "parse_failed")

\* Lines 120-125: parse the CV (agent None raises AttributeError), publish
\* researching_company / 40.
background_researching_company(sid, th) ==
    /\ th.pc = "parse_file"
    /\ IF ~th.agent
         THEN BackgroundFailed(sid, th, "agent_is_none")
         ELSE \/ \E cv \in CVContents :
                   BackgroundStep(sid, th,
                                  [current_step |-> "researching_company",
                                   progress |-> 40],
                                  {[th EXCEPT !.pc = "research_company",
                                              !.cv_content = cv]},
                                  FALSE)
              \/ BackgroundFailed(sid, th, "parse_failed")

\* Lines 128-133: research the company, publish analyzing_cv / 60.
background_analyzing_cv(sid, th) ==
    /\ th.pc = "research_company"
    /\ \/ \E c \in CompanyData :
            BackgroundStep(sid, th,
                           [current_step |-> "analyzing_cv", progress |-> 60],
                           {[th EXCEPT !.pc = "analyze_sections",
                                       !.company_data = c]},
                           FALSE)
       \/ BackgroundFailed(sid, th, "research_failed")

\* An analysis that answers only for the sections it finds in the CV.
analyze_sections_found_only(text) ==
    [s \in SectionSet \ {"Certifications"} |-> text]

\* core/cv_analyzer.py analyze_sections: one gateway answer per entry of
\* CV_SECTIONS, in that order (a run's answers are one text here).
analyze_sections(text) == [s \in SectionSet |-> text]

\* Lines 136-151: analyse every section, then one update that stores the
\* results dictionary (a new object) and switches to waiting_approval.
background_waiting_approval(sid, th) ==
    /\ th.pc = "analyze_sections"
    /\ \/ \E a \in AnalysisTexts :
            BackgroundStep(sid, th,
                           [status |-> "waiting_approval",
                            current_step |-> "cv_section_approval",
                            progress |-> 80,
                            results |->
                              [populated |-> TRUE,
                               company_research |-> th.company_data,
                               cv_suggestions |-> analyze_sections(a),
                               cv_content |-> th.cv_content,
                               job_profile |-> th.job_profile]],
                           {}, TRUE)
       \/ BackgroundFailed(sid, th, "analysis_failed")

\* ---------------------------------------------------- get_session_status
\* A status read that registers an id it does not know and reports the new
\* record.
get_session_status_begin_registering(sid) ==
    /\ loop.op = "idle"
    /\ active_sessions' = IF sid \in DOMAIN active_sessions
                            THEN active_sessions
                            ELSE (sid :> NewSession) @@ active_sessions
    /\ loop' = [Idle EXCEPT !.op = "status", !.sid = sid,
                            !.pc = "read_current_step",
                            !.status = active_sessions'[sid].status,
                            !.seen = {Triple(active_sessions'[sid])}]
    /\ ret' = NoReturn
    /\ UNCHANGED <<threads, files, starts, researchVars, artifactVars>>

\* Lines 163-170: None for an unknown id; else the first of three separate
\* reads of the live record.
get_session_status_begin(sid) ==
    /\ loop.op = "idle"
    /\ IF sid \notin DOMAIN active_sessions
         THEN /\ ret' = [NoReturn EXCEPT !.op = "status", !.sid = sid, !.kind = "none"]
              /\ loop' = loop
         ELSE /\ loop' = [Idle EXCEPT !.op = "status", !.sid = sid,
                                      !.pc = "read_current_step",
                                      !.status = active_sessions[sid].status,
                                      !.seen = {Triple(active_sessions[sid])}]
              /\ ret' = NoReturn
    /\ UNCHANGED <<active_sessions, threads, files, starts, researchVars, artifactVars>>

\* Line 171.
get_session_status_current_step(sid) ==
    /\ loop.op = "status" /\ loop.sid = sid /\ loop.pc = "read_current_step"
    /\ loop' = [loop EXCEPT !.pc = "read_progress",
                            !.current_step = active_sessions[sid].current_step]
    /\ UNCHANGED <<active_sessions, threads, ret, files, starts, researchVars, artifactVars>>

\* Lines 172-174.
get_session_status_progress(sid) ==
    /\ loop.op = "status" /\ loop.sid = sid /\ loop.pc = "read_progress"
    /\ ret' = ProcessingStatus("status", sid, loop.status, loop.current_step,
                               active_sessions[sid].progress,
                               SessionMessage(active_sessions[sid]))
    /\ loop' = Idle
    /\ UNCHANGED <<active_sessions, threads, files, starts, researchVars, artifactVars>>

\* --------------------------------------------- handle_section_interaction
\* Lines 229-235, the success dictionary; an error dictionary holds the
\* message alone.
InteractReturn(sid, section, action, kind, reason, result) ==
    IF kind = "success"
      THEN [NoReturn EXCEPT !.op = "interact", !.sid = sid, !.kind = kind,
                            !.section = section, !.action = action,
                            !.result = result]
      ELSE [NoReturn EXCEPT !.op = "interact", !.sid = sid, !.kind = kind,
                            !.reason = reason]

\* core/interactive_approval.py _modify_suggestions, lines 164-178: the
\* gateway's text, or an error sentence when the gateway call raises.
modify_suggestions(response) ==
    IF response = GatewayFailure THEN ErrModify ELSE response

\* core/interactive_approval.py _answer_question, lines 201-215.
answer_question(response) ==
    IF response = GatewayFailure THEN ErrAnswer ELSE response

\* A gateway client that sends the request again after the first post.
chat_completion_with_retry(calls) == calls + 2

\* utils/api_client.py chat_completion, lines 89-97: one requests.post per
\* call, no retry; the outbound calls made so far, after it.
chat_completion(calls) == calls + 1

\* A check that lets every section name through.
SectionKnownAlways(cv_suggestions, section) == TRUE

\* Line 197: the section is a key of the suggestions dictionary.
SectionKnown(cv_suggestions, section) == section \in DOMAIN cv_suggestions

\* A check that takes every payload, an empty one included, as given.
TextMissingNever(text) == FALSE

\* Lines 205 and 215: `not text`, true of None and of the empty string.
TextMissing(text) == text = ""

\* A dispatch that treats an unknown action as a skip.
InvalidActionAccepted(sid, section, action) ==
    InteractReturn(sid, section, action, "success", Absent, "skipped")

\* Line 227: the else branch of the action dispatch.
InvalidAction(sid, section, action) ==
    InteractReturn(sid, section, action, "error", "Invalid action", Absent)

\* A guard that only refuses interactions while the pipeline is running.
InteractionAllowedWhenNotProcessing(status) == status # "processing"

\* Line 191: the status an interaction is accepted in.
InteractionAllowed(status) == status = "waiting_approval"

\* Lines 208 and 218, agent.interactive_approval: the agent of a record
\* that create_session has written is None, and the AttributeError is
\* caught by lines 237-239; else the helper goes on to the gateway.
AgentCall(sid, section, action) ==
    IF ~active_sessions[sid].agent
      THEN InteractReturn(sid, section, action, "error", "Interaction failed", Absent)
      ELSE InteractReturn(sid, section, action, "gateway", Absent, Absent)

\* Lines 186-227 up to the gateway call: "gateway" when the call goes on to
\* the gateway, else the value returned at once.
InteractDecision(sid, section, action, modification_text, question) ==
    IF sid \notin DOMAIN active_sessions
      THEN InteractReturn(sid, section, action, "error", "Session not found", Absent)
    ELSE IF ~InteractionAllowed(active_sessions[sid].status)
      THEN InteractReturn(sid, section, action, "error",
                          "Session not ready for interactions", Absent)
    ELSE IF ~active_sessions[sid].results.populated
      THEN InteractReturn(sid, section, action, "raised", "KeyError", Absent)
    ELSE IF ~SectionKnown(active_sessions[sid].results.cv_suggestions, section)
      THEN InteractReturn(sid, section, action, "error", "Section not found", Absent)
    ELSE IF action = "approve"
      THEN InteractReturn(sid, section, action, "success", Absent, "approved")
    ELSE IF action = "modify"
      THEN IF TextMissing(modification_text)
             THEN InteractReturn(sid, section, action, "error",
                                 "Modification text required", Absent)
             ELSE AgentCall(sid, section, action)
    ELSE IF action = "ask"
      THEN IF TextMissing(question)
             THEN InteractReturn(sid, section, action, "error",
                                 "Question required", Absent)
             ELSE AgentCall(sid, section, action)
    ELSE IF action = "skip"
      THEN InteractReturn(sid, section, action, "success", Absent, "skipped")
    ELSE InvalidAction(sid, section, action)

handle_section_interaction_begin(sid, section, action, modification_text, question) ==
    /\ loop.op = "idle"
    /\ LET d == InteractDecision(sid, section, action, modification_text, question)
       IN  IF d.kind = "gateway"
             THEN /\ loop' = [Idle EXCEPT !.op = "interact", !.sid = sid,
                                          !.pc = action, !.section = section,
                                          !.action = action]
                  /\ ret' = NoReturn
             ELSE /\ ret' = d
                  /\ loop' = loop
    /\ UNCHANGED <<active_sessions, threads, files, starts, researchVars, artifactVars>>

\* Lines 208-212 and 229-235: the gateway answers or fails; whatever
\* _modify_suggestions returns is stored under the section and returned.
handle_section_interaction_modify(sid, response) ==
    /\ loop.op = "interact" /\ loop.sid = sid /\ loop.pc = "modify"
    /\   LET text == modify_suggestions(response)
         IN  /\ active_sessions' =
                  IF loop.stale
                    THEN active_sessions
                    ELSE [active_sessions EXCEPT
                            ![sid].results.cv_suggestions = (loop.section :> text) @@ @]
             /\ ret' = [InteractReturn(sid, loop.section, "modify", "success",
                                       Absent, text)
                          EXCEPT !.calls = chat_completion(ret.calls),
                                 !.gateway = IF response = GatewayFailure
                                               THEN "failed" ELSE "ok"]
    /\ loop' = Idle
    /\ UNCHANGED <<threads, files, starts, researchVars, artifactVars>>

\* Lines 218-221 and 229-235.
handle_section_interaction_ask(sid, response) ==
    /\ loop.op = "interact" /\ loop.sid = sid /\ loop.pc = "ask"
    /\   ret' = [InteractReturn(sid, loop.section, "ask", "success", Absent,
                                answer_question(response))
                   EXCEPT !.calls = chat_completion(ret.calls),
                          !.gateway = IF response = GatewayFailure
                                        THEN "failed" ELSE "ok"]
    /\ loop' = Idle
    /\ UNCHANGED <<active_sessions, threads, files, starts, researchVars, artifactVars>>

\* ---------------------------------------------------- finalize_processing
FinalizeRaised(sid, reason) ==
    [NoReturn EXCEPT !.op = "finalize", !.sid = sid, !.kind = "raised",
                     !.reason = reason]

\* An except branch that raises again without touching the session.
FinalizeFailedWithoutUpdate(sid, cause) ==
    /\ ret' = FinalizeRaised(sid, cause)
    /\ loop' = Idle
    /\ UNCHANGED <<active_sessions, threads, starts, researchVars, artifactVars>>

\* Lines 293-301: the except branch: status error, the cause stored, and
\* the exception raised again to the caller.
FinalizeFailed(sid, cause) ==
    /\ active_sessions' = Update(active_sessions, sid,
                                 [status |-> "error", error |-> cause])
    /\ ret' = FinalizeRaised(sid, cause)
    /\ loop' = Idle
    /\ UNCHANGED <<threads, starts, researchVars, artifactVars>>

\* A guard that only refuses finalize while the pipeline is running.
FinalizeAllowedWhenNotProcessing(status) == status # "processing"

\* Line 249: the status finalize is accepted in.
FinalizeAllowed(status) == status = "waiting_approval"

\* Lines 244-258: ValueError for an unknown id or a session that is not in
\* waiting_approval; else the switch to finalizing / 90.
finalize_processing_begin(sid) ==
    /\ loop.op = "idle"
    /\ IF sid \notin DOMAIN active_sessions
         THEN /\ ret' = FinalizeRaised(sid, "Session not found")
              /\ UNCHANGED <<active_sessions, loop>>
         ELSE IF ~FinalizeAllowed(active_sessions[sid].status)
         THEN /\ ret' = FinalizeRaised(sid, "Session not ready for finalization")
              /\ UNCHANGED <<active_sessions, loop>>
         ELSE /\ active_sessions' =
                   Update(active_sessions, sid,
                          [status |-> "finalizing",
                           current_step |-> "generating_motivation_letter",
                           progress |-> 90])
              /\ loop' = [Idle EXCEPT !.op = "finalize", !.sid = sid,
                                      !.pc = "generate_letter"]
              /\ ret' = NoReturn
    /\ UNCHANGED <<threads, files, starts, researchVars, artifactVars>>

\* Lines 260-268: take the agent and the results object of the session
\* (agent.motivation_generator on the None of a record that create_session
\* has written raises AttributeError), then the letter generator answers
\* with a letter or a gateway call of it raises.
finalize_processing_generate_letter(sid, response) ==
    /\ loop.op = "finalize" /\ loop.sid = sid /\ loop.pc = "generate_letter"
    /\ IF ~active_sessions[sid].agent
         THEN FinalizeFailed(sid, "AttributeError")
         ELSE IF ~active_sessions[sid].results.populated
         THEN FinalizeFailed(sid, "KeyError")
         ELSE   IF response = GatewayFailure
                  THEN FinalizeFailed(sid, "letter_failed")
                  ELSE /\ loop' = [loop EXCEPT !.pc = "save_results",
                                               !.res = active_sessions[sid].results,
                                               !.letter = response]
                       /\ UNCHANGED <<active_sessions, threads, ret, starts, researchVars, artifactVars>>
    /\ UNCHANGED files

\* Lines 271-279: the dictionary handed to _save_results and stored as
\* final_results; its timestamp is a datetime object (line 273), where the
\* command-line agent passes an ISO string.
FinalResults(frame) ==
    [present |-> TRUE, timestamp |-> "datetime",
     company_research |-> frame.res.company_research,
     cv_suggestions |-> frame.res.cv_suggestions,
     motivation_letter |-> frame.letter]

\* json.dump without a default hook: a datetime object is not serializable
\* (TypeError), a str is.
JsonSerializable(value) == value # "datetime"

\* The writes of _save_results that the file system can fail, in their
\* order.
SaveFailures ==
    {"letter_write_failed", "suggestions_write_failed", "summary_write_failed"}

\* core/agent_controller.py _save_results, lines 146-198: the letter file,
\* then the suggestions file, then the session summary, which holds
\* results["timestamp"] (line 175); the first write that fails raises and
\* leaves the earlier files in place.  With every write accepted by the
\* file system, the summary's json.dump still raises TypeError for a
\* timestamp it cannot serialize, so the call returns ("saved") for no
\* dictionary that finalize_processing builds.
SaveOutcomes(final) ==
    SaveFailures \cup {IF JsonSerializable(final.timestamp)
                         THEN "saved" ELSE "summary_not_serializable"}

save_results(old, letter, suggestions, outcome) ==
    [letter |-> IF outcome = "letter_write_failed" THEN old.letter ELSE letter,
     has_suggestions |->
        IF outcome \in {"letter_write_failed", "suggestions_write_failed"}
          THEN old.has_suggestions ELSE TRUE,
     suggestions |->
        IF outcome \in {"letter_write_failed", "suggestions_write_failed"}
          THEN old.suggestions ELSE suggestions]

\* A finalize that reports completed whatever _save_results did.
finalize_processing_save_results_unchecked(sid, outcome) ==
    /\ loop.op = "finalize" /\ loop.sid = sid /\ loop.pc = "save_results"
    /\ outcome \in SaveOutcomes(FinalResults(loop))
    /\ files' = [files EXCEPT ![sid] =
                   save_results(@, loop.letter, loop.res.cv_suggestions, outcome)]
    /\ active_sessions' =
         Update(active_sessions, sid,
                [status |-> "completed", progress |-> 100,
                 final_results |-> FinalResults(loop)])
    /\ ret' = [NoReturn EXCEPT !.op = "finalize", !.sid = sid, !.kind = "success",
                               !.status = "completed", !.letter = loop.letter]
    /\ loop' = Idle
    /\ UNCHANGED <<threads, starts, researchVars, artifactVars>>

\* Lines 270-282 (and 293-301 when _save_results raises).
finalize_processing_save_results(sid, outcome) ==
    /\ loop.op = "finalize" /\ loop.sid = sid /\ loop.pc = "save_results"
    /\ outcome \in SaveOutcomes(FinalResults(loop))
    /\ files' = [files EXCEPT ![sid] =
                   save_results(@, loop.letter, loop.res.cv_suggestions, outcome)]
    /\ IF outcome = "saved"
         THEN /\ loop' = [loop EXCEPT !.pc = "completed"]
              /\ UNCHANGED <<active_sessions, threads, ret, starts, researchVars, artifactVars>>
         ELSE FinalizeFailed(sid, outcome)

\* The rest of finalize_processing, lines 284-291, is reached only when
\* _save_results returns, that is in no run of the service: the two steps
\* below are no part of Next.

\* Lines 284-289.
finalize_processing_completed(sid) ==
    /\ loop.op = "finalize" /\ loop.sid = sid /\ loop.pc = "completed"
    /\ active_sessions' =
         Update(active_sessions, sid,
                [status |-> "completed", progress |-> 100,
                 final_results |-> FinalResults(loop)])
    /\ loop' = [loop EXCEPT !.pc = "respond"]
    /\ UNCHANGED <<threads, ret, files, starts, researchVars, artifactVars>>

\* The review status (pending, approved, modified, skipped) the session
\* holds for a stored suggestion: the service stores the plain str of
\* analyze_sections and _modify_suggestions, never a CVSuggestion, and
\* approve and skip store nothing, so no value carries a status.
SuggestionStatus(value) == Absent

\* api/models/response_models.py, lines 18-24: a CVSuggestion is an object
\* with section_name, original_content, suggestions and status.  The values
\* the session holds are the plain str that analyze_sections and
\* _modify_suggestions return, which pydantic accepts as no CVSuggestion.
IsCVSuggestion(text) == FALSE

\* api/models/response_models.py, lines 33-48: JobApplicationResponse(**
\* final_results) validates cv_suggestions as Dict[str, CVSuggestion].
JobApplicationResponseValid(final) ==
    \A s \in DOMAIN final.cv_suggestions : IsCVSuggestion(final.cv_suggestions[s])

\* Line 291, and lines 293-301 when the response object is refused: the
\* ValidationError is raised inside the try block.
finalize_processing_respond(sid) ==
    /\ loop.op = "finalize" /\ loop.sid = sid /\ loop.pc = "respond"
    /\ IF JobApplicationResponseValid(FinalResults(loop))
         THEN /\ ret' = [NoReturn EXCEPT
                           !.op = "finalize", !.sid = sid, !.kind = "success",
                           !.status = "completed", !.letter = loop.letter,
                           !.cv_suggestions = loop.res.cv_suggestions,
                           !.company_research = loop.res.company_research]
              /\ loop' = Idle
              /\ UNCHANGED <<active_sessions, threads, starts, researchVars, artifactVars>>
         ELSE FinalizeFailed(sid, "ValidationError")
    /\ UNCHANGED files

\* ------------------------------------------------- api/routers/cv_routes
\* The exceptions of finalize_processing that are ValueError instances
\* (pydantic's ValidationError is one).
ValueErrors ==
    {"Session not found", "Session not ready for finalization", "ValidationError"}

\* The HTTP status the route answers with for a result of the service.
\* interact_with_section, lines 118-141: 400 for every error dictionary, 500
\* for an exception.  finalize_processing, lines 151-158: 404 for every
\* ValueError, 500 for any other exception.  get_processing_status, lines
\* 99-104: 404 for None.  The download routes, lines 164-189 and 195-218.
RouteStatus(result) ==
    IF result.op = "interact"
      THEN IF result.kind = "error" THEN 400
           ELSE IF result.kind = "raised" THEN 500 ELSE 200
    ELSE IF result.op = "finalize"
      THEN IF result.kind = "raised"
             THEN IF result.reason \in ValueErrors THEN 404 ELSE 500
             ELSE 200
    ELSE IF result.op \in {"download_letter", "download_suggestions"}
      THEN IF result.kind = "error" THEN 404
           ELSE IF result.kind = "raised" THEN 500 ELSE 200
    ELSE IF result.kind = "none" THEN 404 ELSE 200

\* status["status"] in the download routes (lines 166 and 197): a dict can
\* be subscripted, the ProcessingStatus object that this service's
\* get_session_status returns (a pydantic BaseModel) cannot: TypeError.
Subscriptable(type) == type = "dict"

\* Lines 164-189 and 195-218, for the artifact `file` holds (Absent when there
\* is no such file): unknown id, 404; else the status is looked up in the
\* snapshot, which raises outside the try block; were it a dict, 404 unless
\* completed, then the file's content, or 500 when the file is missing (the
\* HTTPException of lines 174 and 204 is raised inside the try block).
Download(op, sid, file) ==
    IF sid \notin DOMAIN active_sessions
      THEN [NoReturn EXCEPT !.op = op, !.sid = sid, !.kind = "error",
                            !.reason = "Session not found or not completed"]
    ELSE IF ~Subscriptable("ProcessingStatus")
      THEN [NoReturn EXCEPT !.op = op, !.sid = sid, !.kind = "raised",
                            !.reason = "TypeError"]
    ELSE IF active_sessions[sid].status # "completed"
      THEN [NoReturn EXCEPT !.op = op, !.sid = sid, !.kind = "error",
                            !.reason = "Session not found or not completed"]
    ELSE IF file = Absent
      THEN [NoReturn EXCEPT !.op = op, !.sid = sid, !.kind = "raised",
                            !.reason = "Download failed"]
    ELSE [NoReturn EXCEPT !.op = op, !.sid = sid, !.kind = "success",
                          !.result = file]

download_motivation_letter(sid) ==
    /\ loop.op = "idle"
    /\ ret' = Download("download_letter", sid, files[sid].letter)
    /\ UNCHANGED <<active_sessions, threads, loop, files, starts, researchVars, artifactVars>>

download_cv_suggestions(sid) ==
    /\ loop.op = "idle"
    /\ ret' = Download("download_suggestions", sid,
                       IF files[sid].has_suggestions THEN "suggestions file"
                                                     ELSE Absent)
    /\ UNCHANGED <<active_sessions, threads, loop, files, starts, researchVars, artifactVars>>

\* ------------------------------------------------------------------ Next
\* One step of the service and its threads, the upload requests registering
\* the ids of upload_ids with job description texts drawn from job_profiles.
NextOf(upload_ids, job_profiles) ==
    \/ \E sid \in upload_ids : create_session(sid)
    \/ \E sid \in upload_ids, jp \in job_profiles :
         process_application_async_begin(sid, jp)
    \/ \E sid \in SessionIds : process_application_async_start_thread(sid)
    \/ \E sid \in SessionIds : process_application_async_return(sid)
    \/ \E sid \in SessionIds : \E th \in BagToSet(threads[sid]) :
         background_parsing_cv(sid, th)
    \/ \E sid \in SessionIds : \E th \in BagToSet(threads[sid]) :
         background_researching_company(sid, th)
    \/ \E sid \in SessionIds : \E th \in BagToSet(threads[sid]) :
         background_analyzing_cv(sid, th)
    \/ \E sid \in SessionIds : \E th \in BagToSet(threads[sid]) :
         background_waiting_approval(sid, th)
    \/ \E sid \in SessionIds : get_session_status_begin(sid)
    \/ \E sid \in SessionIds : get_session_status_current_step(sid)
    \/ \E sid \in SessionIds : get_session_status_progress(sid)
    \/ \E sid \in SessionIds, section \in RequestSections, action \in RequestActions :
         \E payload \in PayloadsOf(action) :
           handle_section_interaction_begin(sid, section, action, payload[1],
                                            payload[2])
    \/ \E sid \in SessionIds, response \in ModifiedTexts \cup {GatewayFailure} :
         handle_section_interaction_modify(sid, response)
    \/ \E sid \in SessionIds, response \in AnswerTexts \cup {GatewayFailure} :
         handle_section_interaction_ask(sid, response)
    \/ \E sid \in SessionIds : finalize_processing_begin(sid)
    \/ \E sid \in SessionIds, response \in LetterTexts \cup {GatewayFailure} :
         finalize_processing_generate_letter(sid, response)
    \/ \E sid \in SessionIds,
          outcome \in SaveFailures \cup {"summary_not_serializable", "saved"} :
         finalize_processing_save_results(sid, outcome)
    \/ \E sid \in SessionIds : download_motivation_letter(sid)
    \/ \E sid \in SessionIds : download_cv_suggestions(sid)

\* One step of the service and its threads, the clients' job description
\* texts drawn from job_profiles.
NextFor(job_profiles) == NextOf(UploadIds, job_profiles)

\* Clients that send job description texts of the required length.
Next == NextFor({jp \in JobProfiles : validate_inputs(jp)})

Spec == Init /\ [][Next]_vars

\* Clients that send any job description text, too short ones included.
NextAnyJobProfile == NextFor(JobProfiles)

SpecAnyJobProfile == Init /\ [][NextAnyJobProfile]_vars

\* Uploads that register both ids, so that two sessions are live at once.
NextTwoSessions == NextOf(SessionIds, {jp \in JobProfiles : validate_inputs(jp)})

SpecTwoSessions == Init /\ [][NextTwoSessions]_vars

\* A step of some background thread.
BackgroundNext ==
    \E sid \in SessionIds : \E th \in BagToSet(threads[sid]) :
      \/ background_parsing_cv(sid, th)
      \/ background_researching_company(sid, th)
      \/ background_analyzing_cv(sid, th)
      \/ background_waiting_approval(sid, th)

\* The rest of a process_application_async call that has begun.
StartNext ==
    \E sid \in SessionIds :
      \/ process_application_async_start_thread(sid)
      \/ process_application_async_return(sid)

\* The service with its threads scheduled fairly: a started thread runs on a
\* thread of the operating system and every call it makes returns or
\* raises, and the synchronous body of process_application_async runs to
\* its end.
SpecFair == Spec /\ WF_vars(BackgroundNext) /\ WF_vars(StartNext)

\* ------------------------------------------- core/company_researcher.py
\* The research cache on its own: two research_company calls for the same
\* company (each pipeline thread has a CompanyResearcher of its own over
\* the one directory data/cache), and the clock.

\* A cache lookup that still serves a record on the day the window ends.
FreshUpToWindow(age) == age <= RetentionDays

\* Line 142: datetime.now() - cache_date < timedelta(days=7).
Fresh(age) == age < RetentionDays

\* Lines 32-33: _extract_company_name is a gateway call of its own, which
\* answers with the company's name or raises.
research_company_begin(r) ==
    /\ research[r].pc = "idle"
    /\ \E ok \in BOOLEAN :
         research' = [research EXCEPT ![r].pc =
                        IF ok THEN "get_cached_research" ELSE "raised"]
    /\ UNCHANGED <<cache, now, generations, serviceVars, artifactVars>>

\* Lines 35-38 and 129-148: a record of the company younger than the window
\* is returned as it is; else on to the research.
get_cached_research(r) ==
    /\ research[r].pc = "get_cached_research"
    /\ research' =
         IF cache.present /\ Fresh(now - cache.research_date)
           THEN [research EXCEPT ![r].pc = "done", ![r].result = cache]
           ELSE [research EXCEPT ![r].pc = "perform_research"]
    /\ UNCHANGED <<cache, now, generations, serviceVars, artifactVars>>

\* Lines 41-42 and 68-127: one generation call; the record carries the time
\* of the call.  A gateway failure is raised to the caller.
perform_research(r) ==
    /\ research[r].pc = "perform_research"
    /\ \/ /\ generations' = Append(generations, now)
          /\ research' = [research EXCEPT
                            ![r].pc = "cache_research",
                            ![r].calls = @ + 1,
                            ![r].data = [present |-> TRUE, research_date |-> now,
                                         generation |-> Len(generations) + 1]]
       \/ /\ research' = [research EXCEPT ![r].pc = "raised"]
          /\ generations' = generations
    /\ UNCHANGED <<cache, now, serviceVars, artifactVars>>

\* A cache write whose failure is raised to the caller.
cache_research_raising(r) ==
    /\ research[r].pc = "cache_research"
    /\ \E written \in BOOLEAN :
         IF written
           THEN /\ cache' = research[r].data
                /\ research' = [research EXCEPT ![r].pc = "done",
                                                ![r].result = research[r].data]
           ELSE /\ cache' = cache
                /\ research' = [research EXCEPT ![r].pc = "raised"]
    /\ UNCHANGED <<now, generations, serviceVars, artifactVars>>

\* Lines 44-47 and 150-158: the record is written to the company's file, or
\* the write fails and is only reported; the record is returned either way.
cache_research(r) ==
    /\ research[r].pc = "cache_research"
    /\ \E written \in BOOLEAN :
         cache' = IF written THEN research[r].data ELSE cache
    /\ research' = [research EXCEPT ![r].pc = "done", ![r].result = research[r].data]
    /\ UNCHANGED <<now, generations, serviceVars, artifactVars>>

\* A day passes.
Tick ==
    /\ now < MaxDay
    /\ now' = now + 1
    /\ UNCHANGED <<cache, research, generations, serviceVars, artifactVars>>

NextResearch ==
    \/ \E r \in Researchers : research_company_begin(r)
    \/ \E r \in Researchers : get_cached_research(r)
    \/ \E r \in Researchers : perform_research(r)
    \/ \E r \in Researchers : cache_research(r)
    \/ Tick

SpecResearch == Init /\ [][NextResearch]_vars

\* ------------------------------------------------------ the letter file
\* The letter artifact on its own: _save_results writes the text with
\* open(path, 'w', encoding='utf-8'), the download route reads it back with
\* open(path, 'r', encoding='utf-8'); both in text mode with the default
\* newline handling.

RECURSIVE TextsUpTo(_)
TextsUpTo(n) ==
    IF n = 0 THEN {<<>>}
    ELSE LET shorter == TextsUpTo(n - 1)
         IN  shorter \cup {Append(t, c) : t \in shorter, c \in LetterChars}

\* Text-mode write, newline=None: every "\n" becomes os.linesep.
RECURSIVE TextWrite(_, _)
TextWrite(text, linesep) ==
    IF text = <<>> THEN <<>>
    ELSE (IF Head(text) = "\n" THEN linesep ELSE <<Head(text)>>)
           \o TextWrite(Tail(text), linesep)

\* Text-mode read, newline=None (universal newlines): "\r\n" and a lone
\* "\r" are both returned as "\n".
RECURSIVE TextRead(_)
TextRead(chars) ==
    IF chars = <<>> THEN <<>>
    ELSE IF Head(chars) = "\r"
      THEN IF Len(chars) > 1 /\ chars[2] = "\n"
             THEN <<"\n">> \o TextRead(Tail(Tail(chars)))
             ELSE <<"\n">> \o TextRead(Tail(chars))
    ELSE <<Head(chars)>> \o TextRead(Tail(chars))

\* os.linesep: "\n" on POSIX, "\r\n" on Windows.
Lineseps == {<<"\n">>, <<"\r", "\n">>}

\* core/agent_controller.py, lines 156-157: f.write(results["motivation_letter"]).
write_letter(text, linesep) ==
    /\ letter_text' = text
    /\ letter_file' = TextWrite(text, linesep)
    /\ UNCHANGED <<letter_read, generator, serviceVars, researchVars>>

\* api/routers/cv_routes.py, lines 176-177: content = f.read().
read_letter ==
    /\ letter_read' = TextRead(letter_file)
    /\ UNCHANGED <<letter_text, letter_file, generator, serviceVars, researchVars>>

NextLetterFile ==
    \/ \E text \in TextsUpTo(MaxLetterLen), linesep \in Lineseps :
         write_letter(text, linesep)
    \/ read_letter

SpecLetterFile == Init /\ [][NextLetterFile]_vars

\* ------------------------------------------ core/motivation_generator.py
\* generate_letter on its own.  A text is its word count, len(text.split()),
\* the one property of it the generator looks at; every gateway call answers
\* with a text of any word count or raises.

\* Line 165.
InBand(words) ==
    MOTIVATION_LETTER_MIN_WORDS <= words /\ words <= MOTIVATION_LETTER_MAX_WORDS

\* A gateway call of the generator: the text it returns becomes the letter,
\* or it raises and generate_letter raises with it.
GeneratorCall(after) ==
    \/ \E words \in WordCounts :
         generator' = [generator EXCEPT !.pc = after, !.letter = words,
                                        !.calls = chat_completion(@),
                                        !.log = Append(@, words)]
    \/ generator' = [generator EXCEPT !.pc = "raised",
                                      !.calls = chat_completion(@)]

\* Lines 36 and 47-136: the draft.
generate_initial_letter ==
    /\ generator.pc = "idle"
    /\ GeneratorCall("validate_and_adjust_length")
    /\ UNCHANGED <<letter_text, letter_file, letter_read, serviceVars, researchVars>>

\* An adjustment that is checked again, up to three times.
validate_and_adjust_length_again ==
    /\ generator.pc = "validate_and_adjust_length"
    /\ IF InBand(generator.letter) \/ generator.calls > 3
         THEN generator' = [generator EXCEPT !.pc = "humanize_text"]
         ELSE GeneratorCall("validate_and_adjust_length")
    /\ UNCHANGED <<letter_text, letter_file, letter_read, serviceVars, researchVars>>

\* Lines 39 and 161-211: a letter inside the band is kept; else one
\* _expand_letter or _compress_letter call, whose answer is taken as it is.
validate_and_adjust_length ==
    /\ generator.pc = "validate_and_adjust_length"
    /\ IF InBand(generator.letter)
         THEN generator' = [generator EXCEPT !.pc = "humanize_text"]
         ELSE GeneratorCall("humanize_text")
    /\ UNCHANGED <<letter_text, letter_file, letter_read, serviceVars, researchVars>>

\* Lines 42-45 and 213-235: the style pass, whose answer is returned.
humanize_text ==
    /\ generator.pc = "humanize_text"
    /\ GeneratorCall("done")
    /\ UNCHANGED <<letter_text, letter_file, letter_read, serviceVars, researchVars>>

NextGenerator ==
    \/ generate_initial_letter
    \/ validate_and_adjust_length
    \/ humanize_text

SpecGenerator == Init /\ [][NextGenerator]_vars

\* ================================================================ claims
Status(sid) == active_sessions[sid].status

StatusEdges ==
    {<<"initialized", "processing">>, <<"processing", "waiting_approval">>,
     <<"processing", "error">>, <<"waiting_approval", "finalizing">>,
     <<"finalizing", "completed">>, <<"finalizing", "error">>}

\* C1: every change of a session's status follows an edge of the state
\* machine initialized -> processing -> waiting_approval -> finalizing ->
\* completed, with error reachable from processing and finalizing only, and
\* error and completed without an outgoing change.
C1_StatusFollowsEdges ==
    [][\A sid \in DOMAIN active_sessions :
         active_sessions'[sid].status # active_sessions[sid].status
           => <<active_sessions[sid].status, active_sessions'[sid].status>>
                \in StatusEdges]_vars

\* C2: process_application_async on a session whose status is not
\* initialized is rejected at once: it returns an error, starts no pipeline
\* and leaves the session record unchanged.
C2_StartRequiresInitialized ==
    [][\A sid \in SessionIds, jp \in JobProfiles :
         (/\ process_application_async_begin(sid, jp)
          /\ sid \in DOMAIN active_sessions
          /\ Status(sid) # "initialized")
           => /\ active_sessions' = active_sessions
              /\ threads' = threads
              /\ loop' = Idle
              /\ ret'.op = "start"
              /\ ret'.kind \in {"error", "raised"}]_vars

\* C3: at every moment at most one _process_in_background thread is active
\* for a session id.
C3_OnePipelinePerSession ==
    \A sid \in SessionIds : LiveThreads(sid) <= 1

\* C4: once a session's status is completed, no step (of any operation, the
\* rest of the finalize call included) changes any field of its record.
C4_CompletedIsImmutable ==
    [][\A sid \in DOMAIN active_sessions :
         Status(sid) = "completed"
           => active_sessions'[sid] = active_sessions[sid]]_vars

\* A step in which the event loop, idle before it, takes a
\* handle_section_interaction call for sid: the call returns at once or goes
\* on to its gateway call.
InteractCalled(sid) ==
    /\ loop.op = "idle"
    /\ \/ loop'.op = "interact" /\ loop'.sid = sid
       \/ loop' = Idle /\ ret' # ret /\ ret'.op = "interact" /\ ret'.sid = sid

\* C5: handle_section_interaction on a session whose status is not
\* waiting_approval, whatever the section, action and payload, returns an
\* error, goes on to no gateway call and changes nothing.
C5_InteractRejectedOutsideApproval ==
    [][\A sid \in DOMAIN active_sessions :
         (InteractCalled(sid) /\ Status(sid) # "waiting_approval")
           => /\ ret'.op = "interact"
              /\ ret'.kind = "error"
              /\ ret'.calls = 0
              /\ loop' = Idle
              /\ active_sessions' = active_sessions
              /\ files' = files]_vars

\* C5 witness: an interaction was refused on a session that is processing.
C5_Witness ==
    /\ ret.op = "interact"
    /\ ret.reason = "Session not ready for interactions"
    /\ ret.sid \in DOMAIN active_sessions
    /\ Status(ret.sid) = "processing"
    /\ active_sessions[ret.sid].results.populated

\* C6: finalize_processing on a session whose status is not
\* waiting_approval raises, and leaves the session record and the persisted
\* artifacts as they were (a second finalize regenerates and rewrites
\* nothing).
C6_FinalizeRejectedOutsideApproval ==
    [][\A sid \in SessionIds :
         (/\ finalize_processing_begin(sid)
          /\ sid \in DOMAIN active_sessions
          /\ Status(sid) # "waiting_approval")
           => /\ ret'.op = "finalize"
              /\ ret'.kind = "raised"
              /\ loop' = Idle
              /\ active_sessions' = active_sessions
              /\ files' = files]_vars

\* C6 witness: finalize was refused on a session whose earlier finalize
\* had written the artifacts to storage (and left the session in error).
C6_Witness ==
    /\ ret.op = "finalize"
    /\ ret.reason = "Session not ready for finalization"
    /\ ret.sid \in DOMAIN active_sessions
    /\ Status(ret.sid) = "error"
    /\ active_sessions[ret.sid].error = "summary_not_serializable"
    /\ files[ret.sid].letter # Absent
    /\ files[ret.sid].has_suggestions

\* C7: a modify whose gateway call fails leaves cv_suggestions[section] as
\* it was before the call.
C7_FailedModifyKeepsSuggestion ==
    [][\A sid \in SessionIds :
         handle_section_interaction_modify(sid, GatewayFailure)
           => active_sessions'[sid].results.cv_suggestions[loop.section]
                = active_sessions[sid].results.cv_suggestions[loop.section]]_vars

\* C8: a modify or ask whose gateway call fails leaves the session in
\* waiting_approval and returns an error outcome, not a success.
C8_FailedInteractionReturnsError ==
    [][\A sid \in SessionIds :
         (\/ handle_section_interaction_modify(sid, GatewayFailure)
          \/ handle_section_interaction_ask(sid, GatewayFailure))
           => /\ active_sessions'[sid].status = "waiting_approval"
              /\ ret'.kind \in {"error", "raised"}]_vars

\* C9: the snapshot get_session_status returns is the (status, current_step,
\* progress) the record held together at one instant of the call.
C9_SnapshotIsOneInstant ==
    [][\A sid \in SessionIds :
         get_session_status_progress(sid)
           => <<ret'.status, ret'.current_step, ret'.progress>> \in loop.seen]_vars

\* C10: when letter generation or artifact persistence fails during
\* finalize, the call ends with the session in status error, the cause in
\* its error field and the failure raised to the caller; never a success
\* result, never finalizing or completed.
C10_FinalizeFailureIsError ==
    [][\A sid \in SessionIds :
         (\/ finalize_processing_generate_letter(sid, GatewayFailure)
          \/ \E outcome \in SaveFailures \cup {"summary_not_serializable"} :
               finalize_processing_save_results(sid, outcome))
           => /\ loop' = Idle
              /\ ret'.op = "finalize"
              /\ ret'.kind = "raised"
              /\ ret'.reason \in {"letter_failed", "KeyError", "AttributeError",
                                   "summary_not_serializable"} \cup SaveFailures
              /\ active_sessions'[sid].status = "error"
              /\ active_sessions'[sid].error = ret'.reason]_vars

\* C10 witness: the suggestions file could not be written after the letter
\* file had been: the call raised and the session is in error with that cause.
C10_Witness ==
    /\ ret.op = "finalize"
    /\ ret.kind = "raised"
    /\ ret.reason = "suggestions_write_failed"
    /\ Status(ret.sid) = "error"
    /\ active_sessions[ret.sid].error = "suggestions_write_failed"
    /\ files[ret.sid].letter # Absent
    /\ ~files[ret.sid].has_suggestions

\* C11: a finalize whose letter was generated and whose writes the file
\* system all accepted does not fail: the call raises nothing and the
\* session does not end in error (it goes on to completed and returns the
\* artifact).
C11_FinalizeSucceeds ==
    [][\A sid \in SessionIds, outcome \in {"summary_not_serializable", "saved"} :
         finalize_processing_save_results(sid, outcome)
           => /\ ret'.kind # "raised"
              /\ active_sessions'[sid].status # "error"
              /\ loop'.op = "finalize"
              /\ loop'.pc = "completed"]_vars

\* C12: in every state, final_results is present only if the status is
\* completed, and error is present only if the status is error.
C12_FieldsMatchStatus ==
    \A sid \in DOMAIN active_sessions :
        /\ active_sessions[sid].final_results.present => Status(sid) = "completed"
        /\ active_sessions[sid].error # Absent => Status(sid) = "error"

\* C13: process_application_async with a job text shorter than the
\* 50-character minimum is rejected before any background work: it returns
\* an error, starts no thread and the session does not enter processing.
C13_ShortJobProfileRejected ==
    [][\A sid \in UploadIds, jp \in JobProfiles :
         (process_application_async_begin(sid, jp) /\ ~validate_inputs(jp))
           => /\ loop' = Idle
              /\ threads' = threads
              /\ ret'.op = "start"
              /\ ret'.kind \in {"error", "raised"}
              /\ active_sessions'[sid].status # "processing"]_vars

\* C14: the first stage step of a pipeline thread (the parsing_cv update)
\* is never taken while the process_application_async call that started
\* the thread has not returned yet.  (With one live thread for the id
\* while a start call is past thread.start(), that thread is the one the
\* call started.)
C14_ReturnBeforeFirstStage ==
    [][\A sid \in SessionIds :
         (/\ loop.op = "start" /\ loop.sid = sid /\ loop.pc = "return"
          /\ LiveThreads(sid) = 1)
           => \A th \in BagToSet(threads[sid]) : ~background_parsing_cv(sid, th)]_vars

\* C15: after a modify whose gateway call succeeded, the text returned is
\* the gateway's text, that text is stored as cv_suggestions[section], and
\* the stored status of the section is modified.
C15_ModifyStoresTextAndStatus ==
    [][\A sid \in SessionIds, response \in ModifiedTexts :
         handle_section_interaction_modify(sid, response)
           => /\ ret'.kind = "success"
              /\ ret'.result = response
              /\ active_sessions'[sid].results.cv_suggestions[loop.section] = response
              /\ SuggestionStatus(
                   active_sessions'[sid].results.cv_suggestions[loop.section])
                   = "modified"]_vars

\* C16: approve on a known section of a session in waiting_approval
\* succeeds, leaves the suggestion text (and the rest of the record)
\* unchanged, so that a repeated approve meets the same state, and sets the
\* section's status to approved.
C16_ApproveSetsApproved ==
    [][\A sid \in DOMAIN active_sessions, section \in RequestSections,
          payload \in PayloadsOf("approve") :
         (/\ InteractCalled(sid)
          /\ Status(sid) = "waiting_approval"
          /\ section \in DOMAIN active_sessions[sid].results.cv_suggestions
          /\ handle_section_interaction_begin(sid, section, "approve",
                                              payload[1], payload[2]))
           => /\ ret'.kind = "success"
              /\ ret'.action = "approve"
              /\ active_sessions'[sid].results.cv_suggestions[section]
                   = active_sessions[sid].results.cv_suggestions[section]
              /\ SuggestionStatus(
                   active_sessions'[sid].results.cv_suggestions[section])
                   = "approved"]_vars

\* C17: a modify without modification_text, or an ask without question
\* (the other field being filled), is answered with an error: no gateway
\* call is made or pending after it, and the session map is unchanged.
C17_MissingTextRejected ==
    [][\A sid \in SessionIds, section \in RequestSections :
         (/\ InteractCalled(sid)
          /\ \/ handle_section_interaction_begin(sid, section, "modify", "", "text")
             \/ handle_section_interaction_begin(sid, section, "ask", "text", ""))
           => /\ ret'.op = "interact"
              /\ ret'.kind = "error"
              /\ ret'.calls = 0
              /\ loop' = Idle
              /\ active_sessions' = active_sessions]_vars

\* C17 witness: a modify without text on a known section of a session in
\* waiting_approval was refused for the missing text.
C17_Witness ==
    /\ ret.op = "interact"
    /\ ret.reason = "Modification text required"
    /\ Status(ret.sid) = "waiting_approval"

\* A step that ends a handle_section_interaction call for sid: at once,
\* or when its gateway call comes back.
InteractReturned(sid) ==
    /\ loop' = Idle
    /\ \/ InteractCalled(sid)
       \/ loop.op = "interact" /\ loop.sid = sid

\* C18: no step of a handle_section_interaction call changes the key set of
\* cv_suggestions, and a call on a session in waiting_approval that names a
\* section which is no key is answered with an error and changes nothing.
C18_SectionKeysFixed ==
    [][\A sid \in DOMAIN active_sessions :
         /\ (InteractCalled(sid) \/ InteractReturned(sid))
              => DOMAIN active_sessions'[sid].results.cv_suggestions
                   = DOMAIN active_sessions[sid].results.cv_suggestions
         /\ \A section \in RequestSections, action \in RequestActions,
               payload \in RequestPayloads :
              (/\ InteractCalled(sid)
               /\ payload \in PayloadsOf(action)
               /\ Status(sid) = "waiting_approval"
               /\ section \notin DOMAIN active_sessions[sid].results.cv_suggestions
               /\ handle_section_interaction_begin(sid, section, action,
                                                   payload[1], payload[2]))
                => /\ ret'.kind = "error"
                   /\ ret'.reason = "Section not found"
                   /\ loop' = Idle
                   /\ active_sessions' = active_sessions]_vars

\* C18 witness: a request naming a section outside the analysed ones was
\* refused on a session that holds the suggestions of all six sections.
C18_Witness ==
    /\ ret.op = "interact"
    /\ ret.reason = "Section not found"
    /\ Status(ret.sid) = "waiting_approval"
    /\ DOMAIN active_sessions[ret.sid].results.cv_suggestions = SectionSet

\* C19: an action other than approve, modify, ask and skip is answered with
\* an error (the invalid-action one when the session is in waiting_approval
\* and the section known), with no gateway call and the session unchanged.
C19_InvalidActionRejected ==
    [][\A sid \in SessionIds, section \in RequestSections,
          payload \in PayloadsOf("delete") :
         (/\ InteractCalled(sid)
          /\ handle_section_interaction_begin(sid, section, "delete",
                                              payload[1], payload[2]))
           => /\ ret'.kind = "error"
              /\ ret'.calls = 0
              /\ loop' = Idle
              /\ active_sessions' = active_sessions
              /\ (/\ sid \in DOMAIN active_sessions
                  /\ Status(sid) = "waiting_approval"
                  /\ section \in DOMAIN active_sessions[sid].results.cv_suggestions)
                   => ret'.reason = "Invalid action"]_vars

\* C19 witness: a delete request on a session in waiting_approval was
\* refused as an invalid action.
C19_Witness ==
    /\ ret.op = "interact"
    /\ ret.reason = "Invalid action"
    /\ Status(ret.sid) = "waiting_approval"

\* C20: a handle_section_interaction call has made exactly one gateway call
\* when it returns from an accepted modify or ask, and none when it returns
\* from approve, skip or a rejection.
C20_AtMostOneGatewayCall ==
    [][\A sid \in SessionIds :
         InteractReturned(sid)
           => /\ ret'.op = "interact"
              /\ ret'.calls = IF ret'.kind = "success"
                                   /\ ret'.action \in {"modify", "ask"}
                                THEN 1 ELSE 0]_vars

\* C20 witness: an ask went to the gateway once and came back with the
\* answer.
C20_Witness ==
    /\ ret.op = "interact"
    /\ ret.kind = "success"
    /\ ret.action = "ask"
    /\ ret.gateway = "ok"
    /\ ret.calls = 1

\* The rejections of interact and finalize requests, as the routes answer
\* them.
Rejection(result) ==
    /\ result.op \in {"interact", "finalize"}
    /\ result.kind \in {"error", "raised"}
    /\ result.reason \in {"Session not found", "Session not ready for interactions",
                          "Session not ready for finalization", "No CV suggestions",
                          "Section not found", "Invalid action",
                          "Modification text is required", "Question is required"}

\* C21: an interact or finalize request is answered with 404 exactly when
\* it names an unknown session id; a validation or state-conflict rejection
\* is answered with another status.
C21_NotFoundDistinct ==
    Rejection(ret) => (RouteStatus(ret) = 404 <=> ret.reason = "Session not found")

\* C22: the status snapshot of a session in status error carries the stored
\* error text as its message.
C22_ErrorCauseSurfaced ==
    [][\A sid \in SessionIds :
         get_session_status_progress(sid) /\ ret'.status = "error"
           => ret'.message = active_sessions[sid].error]_vars

\* C23: every step of get_session_status leaves the session map unchanged,
\* and a call with an id that is not registered returns none at once and
\* registers nothing.
C23_GetStatusPureRead ==
    [][\A sid \in SessionIds :
         /\ get_session_status_begin(sid)
              => /\ active_sessions' = active_sessions
                 /\ sid \notin DOMAIN active_sessions
                      => /\ ret'.op = "status"
                         /\ ret'.kind = "none"
                         /\ ret'.status = Absent
                         /\ loop' = Idle
         /\ (get_session_status_current_step(sid) \/ get_session_status_progress(sid))
              => active_sessions' = active_sessions]_vars

\* C23 witness: a status read of an id that is not registered returned
\* none while another id is registered, and the id is still unknown.
C23_Witness ==
    /\ ret.op = "status"
    /\ ret.kind = "none"
    /\ ret.sid \notin DOMAIN active_sessions
    /\ DOMAIN active_sessions # {}

\* C24: while the service has accepted one start, the stored progress of a
\* session is a number from 0 to 100 and no step other than a new
\* registration of the id lowers it.
C24_ProgressMonotone ==
    [][starts' <= 1 =>
         \A sid \in DOMAIN active_sessions :
           ~create_session(sid)
             => /\ active_sessions'[sid].progress \in 0..100
                /\ active_sessions'[sid].progress >= active_sessions[sid].progress]_vars

\* C24 witness: one start, and the session has gone through the pipeline
\* into finalize, progress 90.
C24_Witness ==
    /\ starts = 1
    /\ \E sid \in DOMAIN active_sessions :
         /\ active_sessions[sid].progress = 90
         /\ active_sessions[sid].results.populated

GenerationGaps ==
    {generations[p[2]] - generations[p[1]] :
       p \in {q \in (DOMAIN generations) \X (DOMAIN generations) : q[1] < q[2]}}

\* C27 as stated: two research requests for the company within the
\* retention window perform one generation call between them, so any two
\* generation calls lie at least the window apart.
C27_OneGenerationPerWindow ==
    \A gap \in GenerationGaps : gap >= RetentionDays

\* C27, with the condition it needs: a request whose cache lookup finds a
\* written record younger than the retention window returns that record and
\* performs no generation call; a lookup that finds no record, or one whose
\* age has reached the window, goes on to one generation call, and the
\* record of that call replaces the cached one when its write succeeds.
C27_ServedFromFreshCache ==
    [][\A r \in Researchers :
         /\ get_cached_research(r)
              => IF cache.present /\ now - cache.research_date < RetentionDays
                   THEN /\ research'[r].pc = "done"
                        /\ research'[r].result = cache
                        /\ research'[r].calls = 0
                        /\ generations' = generations
                   ELSE research'[r].pc = "perform_research"
         /\ perform_research(r)
              => \/ research'[r].pc = "raised" /\ generations' = generations
                 \/ /\ generations' = Append(generations, now)
                    /\ research'[r].calls = 1
                    /\ research'[r].data.research_date = now
         /\ cache_research(r)
              => /\ cache' \in {cache, research[r].data}
                 /\ research'[r].result = research[r].data
                 /\ generations' = generations]_vars

\* C27 witness: both requests are done within the window, the first wrote
\* its record, the second was served that record, one generation call.
C27_Witness ==
    /\ \A r \in Researchers : research[r].pc = "done"
    /\ Len(generations) = 1
    /\ cache.present
    /\ now - cache.research_date < RetentionDays
    /\ \E r \in Researchers : research[r].calls = 0 /\ research[r].result = cache

\* C28: create_session with an id that is already registered fails and
\* leaves the registered record as it is.
C28_CreateFailsOnCollision ==
    [][\A sid \in SessionIds :
         create_session(sid) /\ sid \in DOMAIN active_sessions
           => /\ active_sessions' = active_sessions
              /\ ret'.kind \in {"error", "raised"}]_vars

\* The causes the except branch of a pipeline records.
PipelineCauses == {"agent_is_none", "parse_failed", "research_failed", "analysis_failed"}

\* C29: the step at which a pipeline stage raises ends the thread, sets
\* status error with the cause, and leaves the results and the files of the
\* session as they were; with one start accepted, the results of a session
\* in that state are empty.
C29_FailedStageStoresNothing ==
    [][\A sid \in DOMAIN active_sessions :
         (LiveThreads(sid)' < LiveThreads(sid) /\ active_sessions'[sid].status = "error")
           => /\ active_sessions'[sid].error \in PipelineCauses
              /\ LiveThreads(sid)' = LiveThreads(sid) - 1
              /\ \A th \in BagToSet(threads'[sid]) : th \in BagToSet(threads[sid])
              /\ active_sessions'[sid].results = active_sessions[sid].results
              /\ active_sessions'[sid].final_results = active_sessions[sid].final_results
              /\ files' = files
              /\ starts <= 1 => active_sessions'[sid].results = EmptyResults]_vars

\* C29 witness: the company research of the only pipeline raised after the
\* CV had been parsed; the session is in error with that cause, no thread is
\* left and the results are empty.
C29_Witness ==
    /\ starts = 1
    /\ \E sid \in DOMAIN active_sessions :
         /\ active_sessions[sid].status = "error"
         /\ active_sessions[sid].error = "research_failed"
         /\ active_sessions[sid].results = EmptyResults
         /\ LiveThreads(sid) = 0

\* The order of the positions of a pipeline thread.
StageOrder ==
    {<<"parsing_cv", "parse_file">>, <<"parse_file", "research_company">>,
     <<"research_company", "analyze_sections">>}

\* C30: a pipeline thread goes through CV parsing, company research and
\* section analysis in that order, each begun with the results of the ones
\* before it, and a session is switched to waiting_approval only by a
\* thread that has finished all three, with what they returned.
C30_StagesInOrder ==
    [][\A sid \in SessionIds :
         /\ \A th \in BagToSet(threads'[sid]) :
              /\ th.pc = "research_company" => th.cv_content # Absent
              /\ th.pc = "analyze_sections"
                   => th.cv_content # Absent /\ th.company_data # Absent
              /\ th \notin BagToSet(threads[sid])
                   => \/ th = NewThread(th.job_profile)
                      \/ \E old \in BagToSet(threads[sid]) :
                           /\ <<old.pc, th.pc>> \in StageOrder
                           /\ old.cv_content \in {Absent, th.cv_content}
                           /\ old.company_data \in {Absent, th.company_data}
         /\ (sid \in DOMAIN active_sessions /\ sid \in DOMAIN active_sessions'
               /\ active_sessions[sid].status # "waiting_approval"
               /\ active_sessions'[sid].status = "waiting_approval")
              => \E th \in BagToSet(threads[sid]) :
                   /\ th.pc = "analyze_sections"
                   /\ LiveThreads(sid)' = LiveThreads(sid) - 1
                   /\ active_sessions'[sid].results.populated
                   /\ active_sessions'[sid].results.cv_content = th.cv_content
                   /\ active_sessions'[sid].results.company_research = th.company_data]_vars

\* C30 witness: the only pipeline has gone through its stages and the
\* session waits for approval with the results of all three.
C30_Witness ==
    /\ starts = 1
    /\ \E sid \in DOMAIN active_sessions :
         /\ active_sessions[sid].status = "waiting_approval"
         /\ active_sessions[sid].current_step = "cv_section_approval"
         /\ active_sessions[sid].results.populated
         /\ active_sessions[sid].results.cv_content \in CVContents
         /\ active_sessions[sid].results.company_research \in CompanyData
         /\ LiveThreads(sid) = 0

\* C31: a finalize whose writes are all accepted persists and returns the
\* suggestions of the session as they stood when finalize was called.
C31_SuggestionsFrozenAtFinalize ==
    [][\A sid \in SessionIds :
         finalize_processing_save_results(sid, "summary_not_serializable")
           => /\ loop.res.cv_suggestions = active_sessions[sid].results.cv_suggestions
              /\ files'[sid].suggestions = loop.res.cv_suggestions
              /\ ret'.kind = "success"
              /\ ret'.cv_suggestions = loop.res.cv_suggestions]_vars

\* C32: once a session holds the results of its pipeline, no step changes
\* their company_research or cv_content, and the suggestion of a section
\* changes only by the modify interaction on that section.
C32_ResultsChangeOnlyByModify ==
    [][\A sid \in DOMAIN active_sessions :
         active_sessions[sid].results.populated
           => /\ active_sessions'[sid].results.company_research
                   = active_sessions[sid].results.company_research
              /\ active_sessions'[sid].results.cv_content
                   = active_sessions[sid].results.cv_content
              /\ DOMAIN active_sessions'[sid].results.cv_suggestions
                   = DOMAIN active_sessions[sid].results.cv_suggestions
              /\ \A s \in DOMAIN active_sessions[sid].results.cv_suggestions :
                   active_sessions'[sid].results.cv_suggestions[s]
                       # active_sessions[sid].results.cv_suggestions[s]
                     => /\ loop.op = "interact" /\ loop.pc = "modify"
                        /\ loop.sid = sid /\ loop.section = s]_vars

\* C33: a session in status completed has its letter and its suggestions on
\* storage, and a finalize in which a write of _save_results fails ends in
\* status error, not in completed.
C33_CompletedHasArtifacts ==
    [][\A sid \in SessionIds :
         /\ (sid \in DOMAIN active_sessions' /\ active_sessions'[sid].status = "completed")
              => files'[sid].letter # Absent /\ files'[sid].has_suggestions
         /\ \A outcome \in SaveFailures :
              finalize_processing_save_results(sid, outcome)
                => /\ active_sessions'[sid].status = "error"
                   /\ active_sessions'[sid].error = outcome
                   /\ ~active_sessions'[sid].final_results.present]_vars

\* C33 witness: the letter file could not be written: the session is in
\* error with that cause and holds no artifact.
C33_Witness ==
    /\ ret.op = "finalize"
    /\ ret.reason = "letter_write_failed"
    /\ Status(ret.sid) = "error"
    /\ files[ret.sid].letter = Absent
    /\ ~files[ret.sid].has_suggestions

\* The positions of a generate_letter call, in their order.
GeneratorRank(pc) ==
    CASE pc = "idle" -> 0
      [] pc = "validate_and_adjust_length" -> 1
      [] pc = "humanize_text" -> 2
      [] pc \in {"done", "raised"} -> 3

C35_LetterWithinBand ==
    generator.pc = "done" => InBand(generator.letter)

\* C36: a research whose cache write fails still returns the record it has
\* just generated.
C36_CacheWriteBestEffort ==
    [][\A r \in Researchers :
         (cache_research(r) /\ cache' # research[r].data)
           => /\ research'[r].pc = "done"
              /\ research'[r].result = research[r].data
              /\ research'[r].result.present
              /\ cache' = cache]_vars

\* C36 witness: a research is done and holds its generated record while the
\* cache holds none.
C36_Witness ==
    \E r \in Researchers :
      /\ research[r].pc = "done"
      /\ research[r].calls = 1
      /\ research[r].result.present
      /\ ~cache.present

\* The step registers session id sid or changes its record.
RecordChanged(sid) ==
    \/ (sid \in DOMAIN active_sessions') # (sid \in DOMAIN active_sessions)
    \/ /\ sid \in DOMAIN active_sessions
       /\ sid \in DOMAIN active_sessions'
       /\ active_sessions'[sid] # active_sessions[sid]

\* A step of an operation on session sid.
OperationOn(sid) ==
    \/ create_session(sid)
    \/ \E jp \in JobProfiles : process_application_async_begin(sid, jp)
    \/ process_application_async_start_thread(sid)
    \/ process_application_async_return(sid)
    \/ \E th \in BagToSet(threads[sid]) :
         \/ background_parsing_cv(sid, th)
         \/ background_researching_company(sid, th)
         \/ background_analyzing_cv(sid, th)
         \/ background_waiting_approval(sid, th)
    \/ get_session_status_begin(sid)
    \/ get_session_status_current_step(sid)
    \/ get_session_status_progress(sid)
    \/ \E section \in RequestSections, action \in RequestActions :
         \E payload \in PayloadsOf(action) :
           handle_section_interaction_begin(sid, section, action, payload[1],
                                            payload[2])
    \/ \E response \in ModifiedTexts \cup {GatewayFailure} :
         handle_section_interaction_modify(sid, response)
    \/ \E response \in AnswerTexts \cup {GatewayFailure} :
         handle_section_interaction_ask(sid, response)
    \/ finalize_processing_begin(sid)
    \/ \E response \in LetterTexts \cup {GatewayFailure} :
         finalize_processing_generate_letter(sid, response)
    \/ \E outcome \in SaveFailures \cup {"summary_not_serializable"} :
         finalize_processing_save_results(sid, outcome)

\* C37: a step of an operation on one session leaves the record of every
\* other session id as it was.
C37_SessionsIndependent ==
    [][\A b \in SessionIds :
         RecordChanged(b) => \A a \in SessionIds \ {b} : ~OperationOn(a)]_vars

\* C37 witness: two sessions are registered and have gone different ways,
\* one failed in its pipeline, the other waits for approval.
C37_Witness ==
    /\ DOMAIN active_sessions = SessionIds
    /\ \E a \in SessionIds, b \in SessionIds :
         /\ a # b
         /\ active_sessions[a].status = "error"
         /\ active_sessions[b].status = "waiting_approval"
         /\ active_sessions[b].results.populated

\* C38: with the threads scheduled fairly, a session in status processing
\* is later in status waiting_approval or error.
C38_ProcessingEnds ==
    \A sid \in SessionIds :
      (sid \in DOMAIN active_sessions /\ active_sessions[sid].status = "processing")
        ~> (sid \in DOMAIN active_sessions
              /\ active_sessions[sid].status \in {"waiting_approval", "error"})

\* C38 witness: a session that was processing has ended in error, the CV
\* parse having raised, and no thread of it is left.
C38_Witness ==
    \E sid \in DOMAIN active_sessions :
      /\ active_sessions[sid].status = "error"
      /\ active_sessions[sid].error = "parse_failed"
      /\ active_sessions[sid].current_step = "parsing_cv"
      /\ LiveThreads(sid) = 0

\* C39: a session in status waiting_approval holds company_research,
\* cv_content, job_profile and a suggestion for exactly the configured CV
\* sections, and no interaction or finalize has found a result missing.
C39_WaitingApprovalHasResults ==
    /\ \A sid \in DOMAIN active_sessions :
         active_sessions[sid].status = "waiting_approval"
           => /\ active_sessions[sid].results.populated
              /\ active_sessions[sid].results.company_research \in CompanyData
              /\ active_sessions[sid].results.cv_content \in CVContents
              /\ active_sessions[sid].results.job_profile \in JobProfiles
              /\ DOMAIN active_sessions[sid].results.cv_suggestions = SectionSet
              /\ Cardinality(SectionSet) = Len(CV_SECTIONS)
    /\ ret.reason # "KeyError"

\* C39 witness: a session waits for approval with a suggestion for each of
\* the six sections, one of them modified since the analysis.
C39_Witness ==
    \E sid \in DOMAIN active_sessions :
      /\ active_sessions[sid].status = "waiting_approval"
      /\ DOMAIN active_sessions[sid].results.cv_suggestions = SectionSet
      /\ active_sessions[sid].results.cv_suggestions["Experience"] \in ModifiedTexts
      /\ active_sessions[sid].results.cv_suggestions["Skills"] \in AnalysisTexts

=============================================================================
